---- MODULE Spec2Model ----
(***************************************************************************)
(* Model of demo_model.py: get_universe, _risk_aversion_from_profile,      *)
(* optimize_portfolio and compute_efficient_frontier.                      *)
(*                                                                         *)
(* Floats are modelled by exact rationals <<n, d>> in lowest terms with    *)
(* d > 0, so that equality of values is equality of pairs.                 *)
(***************************************************************************)
EXTENDS Integers, Sequences, FiniteSets, TLC

\* ------------------------------------------------------------------------
\* Bounds of the explored inputs
\* ------------------------------------------------------------------------
MaxRisk == 6

MaxAssetsArg == 7

MaxPoints == 3

\* ------------------------------------------------------------------------
\* Exact arithmetic standing for the float operations of the source
\* ------------------------------------------------------------------------
Abs(x) == IF x < 0 THEN -x ELSE x

RECURSIVE GCD(_, _)
GCD(a, b) == IF b = 0 THEN a ELSE GCD(b, a % b)

Rat(n, d) ==
    LET g == GCD(Abs(n), Abs(d))
        s == IF d < 0 THEN -1 ELSE 1
    IN  <<(s * n) \div g, (s * d) \div g>>

Zero == <<0, 1>>

One == <<1, 1>>

RAdd(a, b) ==
    LET g == GCD(a[2], b[2])
    IN  Rat(a[1] * (b[2] \div g) + b[1] * (a[2] \div g), (a[2] \div g) * b[2])

RNeg(a) == <<-a[1], a[2]>>

RSub(a, b) == RAdd(a, RNeg(b))

RMul(a, b) ==
    LET x == Rat(a[1], b[2])
        y == Rat(b[1], a[2])
    IN  <<x[1] * y[1], x[2] * y[2]>>

RDiv(a, b) == RMul(a, Rat(b[2], b[1]))

RSign(a) == IF a[1] > 0 THEN 1 ELSE IF a[1] < 0 THEN -1 ELSE 0

RLt(a, b) == RSign(RSub(a, b)) < 0

RLe(a, b) == RSign(RSub(a, b)) <= 0

RMax(a, b) == IF RLt(a, b) THEN b ELSE a

RECURSIVE RSum(_)
RSum(s) == IF s = <<>> THEN Zero ELSE RAdd(Head(s), RSum(Tail(s)))

RDot(a, b) == RSum([i \in 1..Len(a) |-> RMul(a[i], b[i])])


\* ------------------------------------------------------------------------
\* get_universe and the other universe tables handed to the two functions
\* ------------------------------------------------------------------------
Monetaire == "Monétaire"

Asset(ticker, classe, ret, vol) ==
    [Ticker |-> ticker, Classe |-> classe,
     Rendement_attendu |-> ret, Volatilite |-> vol]

get_universe ==
    << Asset("EUROSTOXX50", "Actions", Rat(70, 1000), Rat(15, 100)),
       Asset("MSCI_WORLD", "Actions", Rat(80, 1000), Rat(16, 100)),
       Asset("CORP_BBB", "Obligations", Rat(40, 1000), Rat(6, 100)),
       Asset("GOV_CORE", "Obligations", Rat(20, 1000), Rat(3, 100)),
       Asset("GOLD", "Matières premières", Rat(50, 1000), Rat(20, 100)),
       Asset("REIT_EU", "Immobilier coté", Rat(60, 1000), Rat(18, 100)),
       Asset("MONEY_MKT", Monetaire, Rat(15, 1000), Rat(1, 100)) >>

\* A universe argument whose risky scores are all <= 0 for most lambdas: two
\* assets with equal negative scores, one with score 0 at lambda = 2.5, and
\* the monetary row in the middle of the table.
stressed_universe ==
    << Asset("FLAT_A", "Actions", Rat(0, 1), Rat(10, 100)),
       Asset("FLAT_B", "Actions", Rat(0, 1), Rat(10, 100)),
       Asset("CASH", Monetaire, Rat(10, 1000), Rat(1, 100)),
       Asset("THIN", "Obligations", Rat(1, 1000), Rat(2, 100)) >>

\* A universe argument with a zero-volatility row: its covariance matrix has a
\* zero row, so the linear solve of the frontier is singular.
singular_universe ==
    << Asset("RISKY", "Actions", Rat(50, 1000), Rat(10, 100)),
       Asset("PEGGED", "Obligations", Rat(10, 1000), Rat(0, 1)),
       Asset("CASH", Monetaire, Rat(10, 1000), Rat(1, 100)) >>

\* A universe argument without any expected return: the solve of the frontier
\* gives the zero vector, which sums to 0 after clipping.
barren_universe ==
    << Asset("IDLE_A", "Actions", Rat(0, 1), Rat(10, 100)),
       Asset("IDLE_B", "Obligations", Rat(0, 1), Rat(5, 100)),
       Asset("CASH", Monetaire, Rat(0, 1), Rat(1, 100)) >>

Universes == {get_universe, stressed_universe, singular_universe, barren_universe}

Horizons == {"Court terme", "Moyen terme", "Long terme"}

Montants == {-1000, 0, 10000}

LiquidityFloors == {Rat(0, 100), Rat(10, 100), Rat(50, 100), Rat(100, 100)}

RiskLevels == 0..MaxRisk

MaxAssetsArgs == (-2)..MaxAssetsArg

\* ------------------------------------------------------------------------
\* _risk_aversion_from_profile
\* ------------------------------------------------------------------------
\* Faulty variant of base_table: the table keyed the wrong way round.
base_table_reversed == [r \in 1..5 |->
    CASE r = 1 -> Rat(12, 10) [] r = 2 -> Rat(17, 10) [] r = 3 -> Rat(25, 10)
      [] r = 4 -> Rat(40, 10) [] r = 5 -> Rat(80, 10)]

\* Line 19: the lookup table of the base risk aversion.
base_table == [r \in 1..5 |->
    CASE r = 1 -> Rat(80, 10) [] r = 2 -> Rat(40, 10) [] r = 3 -> Rat(25, 10)
      [] r = 4 -> Rat(17, 10) [] r = 5 -> Rat(12, 10)]

\* Faulty variant of risk_aversion_from_profile: a lookup with a default value
\* instead of a KeyError.
risk_aversion_with_default(risque, horizon) ==
    LET base == IF risque \in 1..5 THEN
                  (CASE risque = 1 -> Rat(80, 10) [] risque = 2 -> Rat(40, 10)
                     [] risque = 3 -> Rat(25, 10) [] risque = 4 -> Rat(17, 10)
                     [] risque = 5 -> Rat(12, 10))
                ELSE Rat(25, 10)
    IN  [raised |-> "none",
         value |-> IF horizon = "Court terme" THEN RMul(base, Rat(12, 10))
                   ELSE IF horizon = "Long terme" THEN RMul(base, Rat(8, 10))
                        ELSE base]

risk_aversion_from_profile(risque, horizon) ==
    IF risque \notin DOMAIN base_table
    THEN [raised |-> "KeyError", value |-> Zero]
    ELSE [raised |-> "none",
          value |-> IF horizon = "Court terme"
                    THEN RMul(base_table[risque], Rat(12, 10))
                    ELSE IF horizon = "Long terme"
                         THEN RMul(base_table[risque], Rat(8, 10))
                         ELSE base_table[risque]]

\* ------------------------------------------------------------------------
\* optimize_portfolio
\* ------------------------------------------------------------------------
IsRisky(a) == a.Classe # Monetaire

IsMonetary(a) == a.Classe = Monetaire

Score(a, lam) ==
    RSub(a.Rendement_attendu, RMul(lam, RMul(a.Volatilite, a.Volatilite)))

\* Indices of the rows of s not yet placed whose score is maximal.
MaxIdx(s, left) ==
    {i \in left : \A j \in left : RLe(s[j].score, s[i].score)}

\* sort_values("score", ascending=False): every descending order of the rows;
\* the default sort kind is not stable, so rows of equal score may come out
\* in any order.
RECURSIVE SortedOrders(_, _)
SortedOrders(s, left) ==
    IF left = {} THEN {<<>>}
    ELSE UNION {{<<s[i]>> \o t : t \in SortedOrders(s, left \ {i})} :
                i \in MaxIdx(s, left)}

sort_values_desc(s) == SortedOrders(s, DOMAIN s)

\* Faulty variant of head: one row too many.
head_one_more(s, n) ==
    LET k == IF n + 1 < Len(s) THEN (IF n + 1 > 0 THEN n + 1 ELSE 0) ELSE Len(s)
    IN  [i \in 1..k |-> s[i]]

\* DataFrame.head(n): the first n rows, all but the last -n rows when n < 0.
head(s, n) ==
    LET k == IF n >= 0 THEN (IF n < Len(s) THEN n ELSE Len(s))
             ELSE (IF Len(s) + n > 0 THEN Len(s) + n ELSE 0)
    IN  [i \in 1..k |-> s[i]]

\* Faulty variant of total_risky_weight: the cash floor is not taken out.
total_risky_weight_whole(liquidite_min) == One

total_risky_weight(liquidite_min) == RSub(One, liquidite_min)

\* Faulty variant of risky_weights: the scores are divided unclipped.
risky_weights_unclipped(selected) ==
    LET clipped == [i \in DOMAIN selected |-> RMax(selected[i].score, Zero)]
        fallback == RSum(clipped) = Zero
        raw == IF fallback THEN [i \in DOMAIN selected |-> One]
               ELSE [i \in DOMAIN selected |-> selected[i].score]
        divisor == IF fallback THEN RSum(raw) ELSE RSum(clipped)
    IN  [weights |-> [i \in DOMAIN selected |-> RDiv(raw[i], divisor)],
         divisor |-> divisor,
         fallback |-> fallback]

\* Lines 40-43: clip, fall back to ones when the clipped scores sum to 0,
\* divide by the sum. Returns the weights and the divisor used.
risky_weights(selected) ==
    LET clipped == [i \in DOMAIN selected |-> RMax(selected[i].score, Zero)]
        raw == IF RSum(clipped) = Zero
               THEN [i \in DOMAIN selected |-> One]
               ELSE clipped
        divisor == RSum(raw)
    IN  [weights |-> [i \in DOMAIN selected |-> RDiv(raw[i], divisor)],
         divisor |-> divisor,
         fallback |-> RSum(clipped) = Zero]

\* Faulty variant of risky_rows: the monetary row is not filtered out.
risky_rows_unfiltered(universe) == universe

risky_rows(universe) == SelectSeq(universe, IsRisky)

money_row(universe) == SelectSeq(universe, IsMonetary)[1]

NoStats == [expected_return |-> Zero, volatility |-> Zero,
            score |-> [dividend |-> Zero, divisor_less_1e_6 |-> Zero],
            cash_amount |-> Zero]

\* alloc.merge(universe, on=["Ticker", "Classe"]): one merged row per pair
\* of an allocation row and a universe row with the same key.
merge(alloc, universe) ==
    LET pairs == {<<i, j>> \in (DOMAIN alloc) \X (DOMAIN universe) :
                    /\ alloc[i].Ticker = universe[j].Ticker
                    /\ alloc[i].Classe = universe[j].Classe}
        RECURSIVE Rows(_)
        Rows(ps) == IF ps = {} THEN <<>>
                    ELSE LET p == CHOOSE q \in ps : TRUE
                         IN  <<[Poids |-> alloc[p[1]].Poids,
                                Rendement_attendu |-> universe[p[2]].Rendement_attendu,
                                Volatilite |-> universe[p[2]].Volatilite]>>
                             \o Rows(ps \ {p})
    IN  Rows(pairs)

\* Line 65, expected_return / (volatility + 1e-6): the quotient is kept as its
\* two operands, its exact value being outside the integer range of the checker.
score_of(expected_return, volatility) ==
    [dividend |-> expected_return, divisor_less_1e_6 |-> volatility]

build_result(universe, montant, liquidite_min, lam, sorted, nb_max_actifs) ==
    LET risky == head(sorted, nb_max_actifs)
        rw == risky_weights(risky)
        alloc_risky == [i \in DOMAIN risky |->
                          [Ticker |-> risky[i].Ticker, Classe |-> risky[i].Classe,
                           Poids |-> RMul(rw.weights[i],
                                          total_risky_weight(liquidite_min))]]
        cash == money_row(universe)
        alloc_cash == <<[Ticker |-> cash.Ticker, Classe |-> cash.Classe,
                         Poids |-> liquidite_min]>>
        concat == alloc_risky \o alloc_cash
        alloc == [i \in DOMAIN concat |->
                    [Ticker |-> concat[i].Ticker, Classe |-> concat[i].Classe,
                     Poids |-> concat[i].Poids,
                     Montant |-> RMul(concat[i].Poids, Rat(montant, 1))]]
        merged == merge(alloc, universe)
        expected_return == RSum([i \in DOMAIN merged |->
                              RMul(merged[i].Poids, merged[i].Rendement_attendu)])
        volatility == RSum([i \in DOMAIN merged |->
                              RMul(merged[i].Poids, merged[i].Volatilite)])
        cash_rows == SelectSeq(alloc, IsMonetary)
    IN  [raised |-> "none",
         alloc |-> alloc,
         stats |-> [expected_return |-> expected_return,
                    volatility |-> volatility,
                    score |-> score_of(expected_return, volatility),
                    cash_amount |-> RSum([i \in DOMAIN cash_rows |->
                                            cash_rows[i].Montant])],
         locals |-> [lam |-> lam, divisor |-> rw.divisor,
                     fallback |-> rw.fallback]]

NoLocals == [lam |-> Zero, divisor |-> Zero, fallback |-> FALSE]

\* The set of results optimize_portfolio can produce (one per sort order).
optimize_portfolio(universe, montant, risque, liquidite_min, nb_max_actifs, horizon) ==
    LET lam == risk_aversion_from_profile(risque, horizon)
        risky == risky_rows(universe)
        scored == [i \in DOMAIN risky |->
                     [Ticker |-> risky[i].Ticker, Classe |-> risky[i].Classe,
                      score |-> Score(risky[i], lam.value)]]
    IN  IF lam.raised # "none"
        THEN {[raised |-> lam.raised, alloc |-> <<>>, stats |-> NoStats,
               locals |-> NoLocals]}
        ELSE {build_result(universe, montant, liquidite_min, lam.value,
                           sorted, nb_max_actifs) :
                sorted \in sort_values_desc(scored)}


\* ------------------------------------------------------------------------
\* compute_efficient_frontier
\* ------------------------------------------------------------------------
\* Line 82: the table the vectors are built over.
frontier_rows(universe) == universe

rho == Rat(2, 10)

\* A numpy array: the components are values, computed once.
array(f) == f \o <<>>

corr_matrix(n) == [i \in 1..n |-> [j \in 1..n |-> IF i = j THEN One ELSE rho]]

cov_matrix(sigma) ==
    LET n == Len(sigma)
        corr == corr_matrix(n)
    IN  array([i \in 1..n |-> array([j \in 1..n |->
            RMul(RMul(sigma[i], sigma[j]), corr[i][j])])])

\* np.linspace(start, stop, num) for num >= 0.
linspace(start, stop, num) ==
    IF num = 1 THEN <<start>>
    ELSE array([k \in 1..num |->
            RAdd(start, RMul(Rat(k - 1, 1), RDiv(RSub(stop, start), Rat(num - 1, 1))))])

RAbs(a) == <<Abs(a[1]), a[2]>>

\* np.linalg.solve(A, b) by elimination with partial pivoting on the
\* augmented matrix M = [A | b]; a column without a non-zero pivot is the
\* LinAlgError of a singular matrix.
RECURSIVE eliminate(_, _, _)
eliminate(M, k, n) ==
    IF k > n
    THEN [singular |-> FALSE, x |-> array([i \in 1..n |-> M[i][n + 1]])]
    ELSE LET cands == {i \in k..n : M[i][k] # Zero}
         IN  IF cands = {}
             THEN [singular |-> TRUE, x |-> <<>>]
             ELSE LET p == CHOOSE i \in cands :
                             \A j \in cands :
                                \/ RLt(RAbs(M[j][k]), RAbs(M[i][k]))
                                \/ (RAbs(M[j][k]) = RAbs(M[i][k]) /\ i <= j)
                      row(i) == IF i = k THEN M[p] ELSE IF i = p THEN M[k] ELSE M[i]
                      pivot == array([j \in 1..(n + 1) |->
                                        RDiv(row(k)[j], row(k)[k])])
                      next == array([i \in 1..n |->
                                 IF i = k THEN pivot
                                 ELSE array([j \in 1..(n + 1) |->
                                         RSub(row(i)[j], RMul(row(i)[k], pivot[j]))])])
                  IN  eliminate(next, k + 1, n)

solve(A, b) ==
    LET n == Len(b)
    IN  eliminate(array([i \in 1..n |-> array([j \in 1..(n + 1) |->
                      IF j <= n THEN A[i][j] ELSE b[i]])]), 1, n)

\* Lines 107-112: clip, equal weights when the clipped vector sums to 0,
\* else normalise.
long_only_weights(w_raw) ==
    LET n == Len(w_raw)
        clipped == array([i \in 1..n |-> RMax(w_raw[i], Zero)])
    IN  IF RSum(clipped) = Zero
        THEN array([i \in 1..n |-> RDiv(One, Rat(n, 1))])
        ELSE array([i \in 1..n |-> RDiv(clipped[i], RSum(clipped))])

quad_form(w, cov) ==
    RSum([i \in DOMAIN w |-> RMul(w[i], RDot(cov[i], w))])

\* The rounding error of a float result, in units in the last place.
RoundErr == {-1, 0, 1}

LCM(a, b) == (a \div GCD(a, b)) * b

RECURSIVE common_denominator(_)
common_denominator(w) ==
    IF w = <<>> THEN 1 ELSE LCM(Head(w)[2], common_denominator(Tail(w)))

\* float(np.sqrt(w @ cov @ w)). With w = c / scale for the integer vector c,
\* the value is sqrt(c @ cov @ c) / scale; it is kept as the exact radicand
\* c @ cov @ c, the scale, and the rounding error of the float computation.
volatility_of(w, cov, err) ==
    LET scale == common_denominator(w)
        c == array([i \in DOMAIN w |-> RMul(w[i], Rat(scale, 1))])
    IN  [radicand |-> quad_form(c, cov), scale |-> scale, ulp |-> err]

\* The quotient of the squares of two volatilities.
SquareRatio(a, b) ==
    RDiv(RDiv(a.radicand, b.radicand),
         RMul(Rat(a.scale, b.scale), Rat(a.scale, b.scale)))

\* Order of two volatilities: the square root is increasing, and rounding
\* only separates results whose exact values are equal.
VolLe(a, b) ==
    IF b.radicand = Zero
    THEN a.radicand = Zero /\ a.ulp <= b.ulp
    ELSE \/ RLt(SquareRatio(a, b), One)
         \/ (SquareRatio(a, b) = One /\ a.ulp <= b.ulp)

MinVolIdx(s, left) ==
    {i \in left : \A j \in left :
        VolLe(s[i].Volatilite_portefeuille, s[j].Volatilite_portefeuille)}

RECURSIVE AscendingOrders(_, _)
AscendingOrders(s, left) ==
    IF left = {} THEN {<<>>}
    ELSE UNION {{<<s[i]>> \o t : t \in AscendingOrders(s, left \ {i})} :
                i \in MinVolIdx(s, left)}

\* Faulty variant of sort_values_frontier: the points are left in sweep order.
sort_values_frontier_unsorted(results) ==
    IF results = <<>>
    THEN [raised |-> "KeyError", frames |-> {<<>>}]
    ELSE [raised |-> "none", frames |-> {results}]

\* pd.DataFrame(results).sort_values("Volatilite_portefeuille"): a frame made
\* from an empty list has no columns, and sorting it by a column raises
\* KeyError.
sort_values_frontier(results) ==
    IF results = <<>>
    THEN [raised |-> "KeyError", frames |-> {<<>>}]
    ELSE [raised |-> "none", frames |-> AscendingOrders(results, DOMAIN results)]

\* The body of the loop for one lambda (lines 99-120), up to the rounding
\* of the volatility.
frontier_point(mu, cov, lam) ==
    LET sol == solve(cov, array([i \in DOMAIN mu |-> RDiv(mu[i], lam)]))
        w == long_only_weights(sol.x)
    IN  IF sol.singular
        THEN [skipped |-> TRUE, w |-> <<>>, ret |-> Zero,
              vol |-> [radicand |-> Zero, scale |-> 1, ulp |-> 0]]
        ELSE [skipped |-> FALSE, w |-> w, ret |-> RDot(w, mu),
              vol |-> volatility_of(w, cov, 0)]

\* Lines 82-120: one step per swept lambda.
frontier_steps(universe, n_points) ==
    LET risky == frontier_rows(universe)
        mu == array([i \in DOMAIN risky |-> risky[i].Rendement_attendu])
        sigma == array([i \in DOMAIN risky |-> risky[i].Volatilite])
        cov == cov_matrix(sigma)
        lam_values == linspace(Rat(5, 10), Rat(80, 10), n_points)
    IN  array([k \in DOMAIN lam_values |-> frontier_point(mu, cov, lam_values[k])])

IsKept(step) == ~step.skipped

\* The set of outcomes of compute_efficient_frontier given its loop steps,
\* errs[k] being the rounding error of the volatility of the k-th lambda.
compute_efficient_frontier(universe, steps, errs) ==
    LET risky == frontier_rows(universe)
        rounded == [k \in DOMAIN steps |-> [steps[k] EXCEPT !.vol.ulp = errs[k]]]
        kept == SelectSeq(rounded, IsKept)
        results == [k \in DOMAIN kept |->
                      [Rendement_portefeuille |-> kept[k].ret,
                       Volatilite_portefeuille |-> kept[k].vol]]
        sorted == sort_values_frontier(results)
    IN  {[raised |-> sorted.raised,
          frontier |-> f,
          locals |-> [tickers |-> [i \in DOMAIN risky |-> risky[i].Ticker],
                      classes |-> [i \in DOMAIN risky |-> risky[i].Classe],
                      weights |-> [k \in DOMAIN kept |-> kept[k].w],
                      n_lambdas |-> Len(steps),
                      n_skipped |-> Len(steps) - Len(kept)]] :
            f \in sorted.frames}

\* ------------------------------------------------------------------------
\* State: one call of one of the two functions, from its arguments to its
\* return value or the exception it raises.
\* ------------------------------------------------------------------------
VARIABLES fn, args, pc, raised, alloc, stats, locals, frontier

vars == <<fn, args, pc, raised, alloc, stats, locals, frontier>>

OptimizeArgs ==
    [universe : {get_universe, stressed_universe}, montant : Montants,
     risque : RiskLevels, liquidite_min : LiquidityFloors,
     nb_max_actifs : MaxAssetsArgs, horizon : Horizons]

FrontierArgs == [universe : Universes, n_points : 0..MaxPoints]

Init ==
    /\ \/ fn = "optimize_portfolio" /\ args \in OptimizeArgs
       \/ fn = "compute_efficient_frontier" /\ args \in FrontierArgs
    /\ pc = "call"
    /\ raised = "none"
    /\ alloc = <<>>
    /\ stats = NoStats
    /\ locals = NoLocals
    /\ frontier = <<>>

OptimizePortfolio ==
    /\ pc = "call"
    /\ fn = "optimize_portfolio"
    /\ \E r \in optimize_portfolio(args.universe, args.montant, args.risque,
                                   args.liquidite_min, args.nb_max_actifs,
                                   args.horizon) :
          /\ raised' = r.raised
          /\ alloc' = r.alloc
          /\ stats' = r.stats
          /\ locals' = r.locals
    /\ pc' = IF raised' = "none" THEN "returned" ELSE "raised"
    /\ UNCHANGED <<fn, args, frontier>>

ComputeEfficientFrontier ==
    /\ pc = "call"
    /\ fn = "compute_efficient_frontier"
    /\ LET steps == frontier_steps(args.universe, args.n_points)
       IN  \E errs \in [DOMAIN steps -> RoundErr] :
              \E r \in compute_efficient_frontier(args.universe, steps, errs) :
                 /\ raised' = r.raised
                 /\ frontier' = r.frontier
                 /\ locals' = r.locals
    /\ pc' = IF raised' = "none" THEN "returned" ELSE "raised"
    /\ UNCHANGED <<fn, args, alloc, stats>>

Next == OptimizePortfolio \/ ComputeEfficientFrontier

Spec == Init /\ [][Next]_vars


\* ------------------------------------------------------------------------
\* Properties
\* ------------------------------------------------------------------------
OptimizeDone == fn = "optimize_portfolio" /\ pc # "call"

OptimizeReturned == fn = "optimize_portfolio" /\ pc = "returned"

FrontierDone == fn = "compute_efficient_frontier" /\ pc # "call"

FrontierReturned == fn = "compute_efficient_frontier" /\ pc = "returned"

ValidOptimizeArgs ==
    /\ args.risque \in 1..5
    /\ RLe(Zero, args.liquidite_min) /\ RLe(args.liquidite_min, One)
    /\ args.nb_max_actifs >= 1
    /\ args.montant > 0

RiskyIdx == {i \in DOMAIN alloc : alloc[i].Classe # Monetaire}

CashIdx == {i \in DOMAIN alloc : alloc[i].Classe = Monetaire}

UniverseRiskyIdx == {j \in DOMAIN args.universe : args.universe[j].Classe # Monetaire}

\* The score of the universe row with the given ticker under lambda lam.
ScoreOfTicker(t, lam) ==
    LET j == CHOOSE k \in DOMAIN args.universe : args.universe[k].Ticker = t
    IN  RSub(args.universe[j].Rendement_attendu,
             RMul(lam, RMul(args.universe[j].Volatilite, args.universe[j].Volatilite)))

Min(a, b) == IF a < b THEN a ELSE b

\* C1: for every valid input, optimize_portfolio returns and the weights of
\* the returned allocation (risky rows plus the cash row) sum to 1, in the
\* score-proportional branch and in the equal-weight fallback branch.
C1_WeightsSumToOne ==
    (OptimizeDone /\ ValidOptimizeArgs) =>
        /\ pc = "returned"
        /\ RSum([i \in DOMAIN alloc |-> alloc[i].Poids]) = One

C1_Witness ==
    /\ OptimizeReturned /\ ValidOptimizeArgs
    /\ ~locals.fallback
    /\ args.liquidite_min = Rat(10, 100)
    /\ Cardinality(RiskyIdx) = 4
    /\ \E i \in RiskyIdx : alloc[i].Poids = Zero

\* C2: every returned allocation has exactly one monetary row, and the weight
\* of that row is the liquidite_min argument, whatever the other arguments.
C2_OneCashRowAtFloor ==
    OptimizeReturned =>
        /\ Cardinality(CashIdx) = 1
        /\ \A i \in CashIdx : alloc[i].Poids = args.liquidite_min

C2_Witness ==
    /\ OptimizeReturned
    /\ args.liquidite_min = Rat(50, 100)
    /\ args.nb_max_actifs = 6
    /\ args.universe = get_universe
    /\ Cardinality(CashIdx) = 1
    /\ Len(alloc) = 7

\* C3: for nb_max_actifs >= 1 the risky rows of the returned allocation are
\* min(nb_max_actifs, number of non-monetary assets) distinct non-monetary
\* assets of the universe, listed by descending score, and no asset left out
\* has a strictly higher score than a listed one.
C3_TopScoresSelected ==
    (OptimizeReturned /\ args.nb_max_actifs >= 1) =>
        /\ Cardinality(RiskyIdx) =
              Min(args.nb_max_actifs, Cardinality(UniverseRiskyIdx))
        /\ RiskyIdx = 1..Cardinality(RiskyIdx)
        /\ \A i \in RiskyIdx :
              \E j \in UniverseRiskyIdx : args.universe[j].Ticker = alloc[i].Ticker
        /\ \A i, k \in RiskyIdx : i # k => alloc[i].Ticker # alloc[k].Ticker
        /\ \A i, k \in RiskyIdx :
              i < k => RLe(ScoreOfTicker(alloc[k].Ticker, locals.lam),
                           ScoreOfTicker(alloc[i].Ticker, locals.lam))
        /\ \A j \in UniverseRiskyIdx :
              (\A i \in RiskyIdx : alloc[i].Ticker # args.universe[j].Ticker) =>
                 \A i \in RiskyIdx :
                    RLe(ScoreOfTicker(args.universe[j].Ticker, locals.lam),
                        ScoreOfTicker(alloc[i].Ticker, locals.lam))

C3_Witness ==
    /\ OptimizeReturned
    /\ args.universe = get_universe
    /\ args.nb_max_actifs = 3
    /\ Cardinality(RiskyIdx) = 3
    /\ Len(alloc) = 4

\* C4: optimize_portfolio called with nb_max_actifs <= 0 or montant <= 0 ends
\* in an error and returns neither an allocation nor statistics.
C4_InvalidInputRejected ==
    (OptimizeDone /\ (args.nb_max_actifs <= 0 \/ args.montant <= 0)) =>
        /\ pc = "raised"
        /\ alloc = <<>>
        /\ stats = NoStats

\* C5: compute_efficient_frontier builds its vectors over the non-monetary
\* assets only, in universe order: the monetary asset is no component of any
\* weight vector, and each weight vector has one component per non-monetary
\* asset (6 on the reference universe).
C5_FrontierExcludesMonetary ==
    FrontierDone =>
        /\ locals.tickers =
              [i \in DOMAIN SelectSeq(args.universe, IsRisky) |->
                  SelectSeq(args.universe, IsRisky)[i].Ticker]
        /\ \A i \in DOMAIN locals.classes : locals.classes[i] # Monetaire
        /\ \A k \in DOMAIN locals.weights :
              Len(locals.weights[k]) = Cardinality(UniverseRiskyIdx)

\* C6: when the linear solve is singular for a swept lambda the point is
\* omitted and the call still returns normally the sequence of the remaining
\* points, possibly empty (also when n_points is 0).
C6_SingularPointsSkipped ==
    FrontierDone =>
        /\ pc = "returned"
        /\ Len(frontier) = locals.n_lambdas - locals.n_skipped

\* C7: optimize_portfolio called with a risk level outside 1..5 raises before
\* any allocation is computed: no default lambda, no allocation, no statistics.
C7_UnknownRiskLevelRaises ==
    (OptimizeDone /\ args.risque \notin 1..5) =>
        /\ pc = "raised"
        /\ raised = "KeyError"
        /\ alloc = <<>>
        /\ stats = NoStats
        /\ locals = NoLocals

C7_Witness ==
    /\ OptimizeDone
    /\ args.risque = 0
    /\ args.nb_max_actifs = 3
    /\ args.montant = 10000
    /\ pc = "raised"

\* C8: for nb_max_actifs >= 1, if every selected score is <= 0 each of the k
\* selected assets gets (1 - liquidite_min) / k; otherwise each gets
\* max(score, 0) / (sum of the clipped scores) * (1 - liquidite_min). The
\* divisor is never zero and no risky weight is negative.
C8_ClippedOrEqualWeights ==
    (OptimizeReturned /\ args.nb_max_actifs >= 1) =>
        LET k == Cardinality(RiskyIdx)
            sc(i) == ScoreOfTicker(alloc[i].Ticker, locals.lam)
            clip(i) == IF RLt(sc(i), Zero) THEN Zero ELSE sc(i)
            total == RSum([i \in 1..k |-> clip(i)])
            rest == RSub(One, args.liquidite_min)
        IN  /\ locals.divisor # Zero
            /\ \A i \in RiskyIdx : RLe(Zero, alloc[i].Poids)
            /\ IF \A i \in RiskyIdx : RLe(sc(i), Zero)
               THEN \A i \in RiskyIdx : alloc[i].Poids = RDiv(rest, Rat(k, 1))
               ELSE \A i \in RiskyIdx :
                       alloc[i].Poids = RMul(RDiv(clip(i), total), rest)

C8_Witness ==
    /\ OptimizeReturned
    /\ args.nb_max_actifs >= 1
    /\ locals.fallback
    /\ Cardinality(RiskyIdx) = 2
    /\ args.liquidite_min = Rat(50, 100)
    /\ \A i \in RiskyIdx : alloc[i].Poids = Rat(1, 4)

\* C9: the points returned by compute_efficient_frontier are ordered by
\* non-decreasing volatility and there are at most n_points of them.
C9_FrontierSortedAndBounded ==
    FrontierReturned =>
        /\ Len(frontier) <= args.n_points
        /\ \A i, j \in DOMAIN frontier :
              i < j => VolLe(frontier[i].Volatilite_portefeuille,
                             frontier[j].Volatilite_portefeuille)

C9_Witness ==
    /\ FrontierReturned
    /\ Len(frontier) = 3
    /\ frontier[1].Volatilite_portefeuille # frontier[2].Volatilite_portefeuille
    /\ frontier[2].Volatilite_portefeuille # frontier[3].Volatilite_portefeuille

\* C10: on the reference universe with the medium horizon, risk level 1 gives
\* lambda = 8.0 and risk level 5 gives lambda = 1.2; every risky asset scores
\* no higher under 8.0 than under 1.2; under risk level 1 only GOV_CORE and
\* CORP_BBB can have a positive weight, and they are the two first rows (both
\* with a positive weight) when two or more assets are kept and the floor is
\* below 1.
C10_MostAverseFavoursBonds ==
    (OptimizeReturned /\ args.universe = get_universe
       /\ args.horizon = "Moyen terme") =>
        /\ args.risque = 5 => locals.lam = Rat(12, 10)
        /\ args.risque = 1 =>
              /\ locals.lam = Rat(8, 1)
              /\ \A j \in UniverseRiskyIdx :
                    RLe(ScoreOfTicker(args.universe[j].Ticker, locals.lam),
                        ScoreOfTicker(args.universe[j].Ticker, Rat(12, 10)))
              /\ \A i \in RiskyIdx :
                    RLt(Zero, alloc[i].Poids) =>
                        alloc[i].Ticker \in {"GOV_CORE", "CORP_BBB"}
              /\ (args.nb_max_actifs >= 2 /\ args.liquidite_min # One) =>
                    /\ alloc[1].Ticker = "GOV_CORE"
                    /\ alloc[2].Ticker = "CORP_BBB"
                    /\ RLt(Zero, alloc[1].Poids)
                    /\ RLt(Zero, alloc[2].Poids)

C10_Witness ==
    /\ OptimizeReturned
    /\ args.universe = get_universe
    /\ args.horizon = "Moyen terme"
    /\ args.risque = 1
    /\ args.nb_max_actifs = 6
    /\ args.liquidite_min = Rat(10, 100)
    /\ alloc[1].Ticker = "GOV_CORE"
    /\ alloc[3].Poids = Zero

====
